---- MODULE Spec2Model ----
(***************************************************************************)
(* Persistence and synchronisation layer of the activity tracker:          *)
(* utils/data_manager.py (local JSON documents and the hybrid load/save)   *)
(* and utils/gist_manager.py (the remote Gist container).                  *)
(*                                                                         *)
(* A Python value is a record [t, items]: t is "dict", "list" or "none",   *)
(* items the ordered sequence of <<key, value>> entries (Python dicts keep *)
(* insertion order).  A text is the sequence of chunks json.dump writes;   *)
(* a chunk is <<symbol, key, value>>.                                      *)
(***************************************************************************)
EXTENDS Naturals, Integers, Sequences, FiniteSets, TLC

\* ---------------------------------------------------------------- bounds
\* Largest number of chunks that reach the file before a failing write fails.
MaxWritten == 1

\* ------------------------------------------------------------- constants
DAILY_DATA_FILE == "daily_data.json"
WEEKLY_DATA_FILE == "weekly_data.json"
\* A sibling file of the container that is none of the two documents.
OTHER_FILE == "other.json"

Docs == {DAILY_DATA_FILE, WEEKLY_DATA_FILE}
GistFiles == Docs \cup {OTHER_FILE}

\* Date keys and record values of the collections.
Keys == {"2024-01-01"}
Vals == {1, 2}

\* The import of utils.gist_manager succeeded.
GIST_AVAILABLE == TRUE

\* -------------------------------------------------------- Python values
Dict(items) == [t |-> "dict", items |-> items]
List(items) == [t |-> "list", items |-> items]
None == [t |-> "none", items |-> <<>>]
EmptyDict == Dict(<<>>)

\* Faulty variant of the truth test: "if data is not None".
Truthy_is_not_none(v) == v.t # "none"

\* bool(v): empty containers and None are falsy.
Truthy(v) == v.t # "none" /\ Len(v.items) > 0

RECURSIVE SeqsUpTo(_, _)
SeqsUpTo(S, n) ==
    IF n = 0 THEN {<<>>}
    ELSE LET shorter == SeqsUpTo(S, n - 1)
         IN  shorter \cup {Append(s, x) : s \in shorter, x \in S}

DistinctKeys(items) ==
    \A i, j \in 1..Len(items) : i # j => items[i][1] # items[j][1]

\* The collections: date-keyed dicts of records.
Collections ==
    {Dict(s) : s \in {q \in SeqsUpTo(Keys \X Vals, Cardinality(Keys)) :
                        DistinctKeys(q)}}

\* dict.__eq__: same entries, whatever the insertion order.
DictEq(a, b) ==
    /\ a.t = "dict" /\ b.t = "dict"
    /\ {a.items[i] : i \in 1..Len(a.items)} = {b.items[i] : i \in 1..Len(b.items)}

\* ------------------------------------------------------------ JSON text
Chunk(c) == <<c, "", 0>>
ItemChunk(p) == <<"item", p[1], p[2]>>

\* json.dumps(data, indent=2) / json.dump(data, f, indent=2): the chunks in
\* the order they are produced.
json_dumps(v) ==
    LET body == [i \in 1..Len(v.items) |-> ItemChunk(v.items[i])]
    IN  IF v.t = "dict" THEN <<Chunk("{")>> \o body \o <<Chunk("}")>>
        ELSE IF v.t = "list" THEN <<Chunk("[")>> \o body \o <<Chunk("]")>>
        ELSE <<Chunk("null")>>

\* dict(pairs): a repeated key keeps its first position and takes the last value.
RECURSIVE DictFromPairs(_)
DictFromPairs(ps) ==
    IF ps = <<>> THEN <<>>
    ELSE LET n == Len(ps)
             front == DictFromPairs(SubSeq(ps, 1, n - 1))
             p == ps[n]
         IN  IF \E i \in 1..Len(front) : front[i][1] = p[1]
             THEN [i \in 1..Len(front) |->
                      IF front[i][1] = p[1] THEN p ELSE front[i]]
             ELSE Append(front, p)

\* json.loads(text): [ok |-> FALSE] stands for json.JSONDecodeError.
json_loads(text) ==
    LET n == Len(text)
        inner == [i \in 1..(n - 2) |-> <<text[i + 1][2], text[i + 1][3]>>]
        allItems == \A i \in 2..(n - 1) : text[i][1] = "item"
    IN  IF n = 1 /\ text[1][1] = "null"
        THEN [ok |-> TRUE, val |-> None]
        ELSE IF n >= 2 /\ text[1][1] = "{" /\ text[n][1] = "}" /\ allItems
        THEN [ok |-> TRUE, val |-> Dict(DictFromPairs(inner))]
        ELSE IF n >= 2 /\ text[1][1] = "[" /\ text[n][1] = "]" /\ allItems
        THEN [ok |-> TRUE, val |-> List(inner)]
        ELSE [ok |-> FALSE, val |-> None]

\* ---------------------------------------------------------- local files
\* A file of DATA_DIR: absent, a text, or bytes that do not decode as text.
Absent == [kind |-> "absent", text |-> <<>>]
Undecodable == [kind |-> "undecodable", text |-> <<>>]
TextFile(text) == [kind |-> "text", text |-> text]

\* Outcome of a call: it returns val, or it raises.
Returned(v) == [raised |-> FALSE, val |-> v]
Raised == [raised |-> TRUE, val |-> None]

\* ---------------------------------------------------------------- state
VARIABLES
    local,        \* DATA_DIR: document name -> file
    gist,         \* the remote container: file name -> file (absent or text)
    config,       \* where the credentials are set: environment and secrets
    last,         \* the latest call of the coordinator and how it ended
    call,         \* the latest call of a date or aggregation function
    page,         \* the latest run of a page script and what it did, in order
    savers        \* remote saves in flight: what each fetched and will submit

vars == <<local, gist, config, last, call, page, savers>>

\* ------------------------------------------------------ data_manager.py
\* load_data(filename), on the file it finds.
load_data(file) ==
    IF file.kind = "absent" THEN Returned(EmptyDict)
    ELSE IF file.kind = "undecodable" THEN Raised
    ELSE LET parsed == json_loads(file.text)
         IN  IF parsed.ok THEN Returned(parsed.val) ELSE Returned(EmptyDict)

\* The ways open(file_path, "w") + json.dump can end on a text: n = -1, open
\* fails; 0 <= n < Len(text), the file was truncated and n chunks reached it
\* before the write failed; n = Len(text), the write completed.
WriteChoices(text) ==
    {n \in (0 - 1)..Len(text) : n <= MaxWritten \/ n = Len(text)}

\* Faulty variant of save_data: the file is opened in append mode.
save_data_append(data, file, n) ==
    LET text == json_dumps(data)
        old == IF file.kind = "text" THEN file.text ELSE <<>>
    IN  IF n < 0 THEN [file |-> file, raised |-> TRUE]
        ELSE IF n < Len(text)
        THEN [file |-> TextFile(old \o SubSeq(text, 1, n)), raised |-> TRUE]
        ELSE [file |-> TextFile(old \o text), raised |-> FALSE]

\* save_data(data, filename): the file it leaves and whether it raised.
save_data(data, file, n) ==
    LET text == json_dumps(data)
    IN  IF n < 0 THEN [file |-> file, raised |-> TRUE]
        ELSE IF n < Len(text)
        THEN [file |-> TextFile(SubSeq(text, 1, n)), raised |-> TRUE]
        ELSE [file |-> TextFile(text), raised |-> FALSE]

WriteStatus(w, file) ==
    IF ~w.raised THEN "ok" ELSE IF w.file = file THEN "open_failed" ELSE "partial"

\* ------------------------------------------------------ gist_manager.py
\* A credential source holds no entry, an empty string, or a value.
Missing == "missing"
SourceValues == {Missing, "", "value"}

\* The sources of the two credentials: os.environ and st.secrets["gist"].
Configs ==
    [GIST_ID : SourceValues, GITHUB_TOKEN : SourceValues,
     secret_id : SourceValues, secret_token : SourceValues]

\* Python's "not x" on what os.environ.get returns (None or a string).
Not(x) == x \in {Missing, ""}

\* Faulty variant of initialize_gist_config: only the ID is looked up in
\* the secrets.
initialize_gist_config_id_only(conf) ==
    IF Not(conf.GIST_ID) \/ Not(conf.GITHUB_TOKEN)
    THEN conf.secret_id # Missing
    ELSE TRUE

\* initialize_gist_config(): the environment is used when it gives both
\* values non-empty; otherwise both are read from the secrets, and a missing
\* entry ends in "credentials not found" and False.
initialize_gist_config(conf) ==
    IF Not(conf.GIST_ID) \/ Not(conf.GITHUB_TOKEN)
    THEN conf.secret_id # Missing /\ conf.secret_token # Missing
    ELSE TRUE

\* The remote store is enabled in the current configuration.
configured == initialize_gist_config(config)

\* Faulty variant of load_data_from_gist: a missing file gives None.
load_data_from_gist_missing_none(container, filename, conf, get) ==
    IF ~initialize_gist_config(conf) THEN EmptyDict
    ELSE IF get # "ok" THEN EmptyDict
    ELSE IF container[filename].kind = "text"
    THEN LET parsed == json_loads(container[filename].text)
         IN  IF parsed.ok THEN parsed.val ELSE EmptyDict
    ELSE None

\* What load_data_from_gist shows to the user through st.warning / st.error:
\* the caller receives none of it.
load_data_from_gist_shown(container, filename, conf, get) ==
    IF ~initialize_gist_config(conf) THEN "error"
    ELSE IF get # "ok" THEN "error"
    ELSE IF container[filename].kind = "text"
    THEN IF json_loads(container[filename].text).ok THEN "none" ELSE "error"
    ELSE "warning"

\* load_data_from_gist(filename): get is how requests.get + raise_for_status
\* ended ("ok" or "fail"); every exception ends in an empty dict.
load_data_from_gist(container, filename, conf, get) ==
    IF ~initialize_gist_config(conf) THEN EmptyDict
    ELSE IF get # "ok" THEN EmptyDict
    ELSE IF container[filename].kind = "text"
    THEN LET parsed == json_loads(container[filename].text)
         IN  IF parsed.ok THEN parsed.val ELSE EmptyDict
    ELSE EmptyDict

\* Faulty variant of the PATCH body: every fetched file gets the new content.
files_data_all_new(container, data, filename) ==
    [f \in {g \in GistFiles : g = filename \/ container[g].kind = "text"} |->
        json_dumps(data)]

\* The files of the PATCH body built from the fetched container.
files_data(container, data, filename) ==
    [f \in {g \in GistFiles : g = filename \/ container[g].kind = "text"} |->
        IF f = filename THEN json_dumps(data) ELSE container[f].text]

\* The container after the service applied a PATCH: the files the body names
\* take the submitted content, the others stay.
ApplyPatch(container, files) ==
    [f \in GistFiles |->
        IF f \in DOMAIN files THEN TextFile(files[f]) ELSE container[f]]

\* Faulty variant of save_data_to_gist: one request per file, the named file
\* first, so a refused request leaves the named file already replaced.
save_data_to_gist_per_file(container, data, filename, conf, get, patch) ==
    IF ~initialize_gist_config(conf) THEN [gist |-> container, ok |-> FALSE]
    ELSE IF get # "ok" THEN [gist |-> container, ok |-> FALSE]
    ELSE LET files == [f \in {filename} |-> json_dumps(data)]
         IN  [gist |-> ApplyPatch(container, files), ok |-> patch = "ok"]

\* Faulty variant of save_data_to_gist: the status of the update response is
\* not checked, so a refused update is reported as saved.
save_data_to_gist_unchecked(container, data, filename, conf, get, patch) ==
    IF ~initialize_gist_config(conf) THEN [gist |-> container, ok |-> FALSE]
    ELSE IF get # "ok" THEN [gist |-> container, ok |-> FALSE]
    ELSE LET files == files_data(container, data, filename)
         IN  IF patch = "ok"
             THEN [gist |-> ApplyPatch(container, files), ok |-> TRUE]
             ELSE IF patch = "lost"
             THEN [gist |-> ApplyPatch(container, files), ok |-> FALSE]
             ELSE [gist |-> container, ok |-> TRUE]

\* save_data_to_gist(data, filename): patch is how requests.patch +
\* raise_for_status ended: "ok"; "rejected" (the update was not applied: no
\* connection or an error status); "lost" (the service applied the update and
\* the response never arrived, so requests.patch raised).
save_data_to_gist(container, data, filename, conf, get, patch) ==
    IF ~initialize_gist_config(conf) THEN [gist |-> container, ok |-> FALSE]
    ELSE IF get # "ok" THEN [gist |-> container, ok |-> FALSE]
    ELSE LET files == files_data(container, data, filename)
         IN  IF patch = "ok"
             THEN [gist |-> ApplyPatch(container, files), ok |-> TRUE]
             ELSE IF patch = "lost"
             THEN [gist |-> ApplyPatch(container, files), ok |-> FALSE]
             ELSE [gist |-> container, ok |-> FALSE]

\* ------------------------------------------- data_manager.py, hybrid calls
\* load_daily_data() / load_weekly_data() on document name: get is the outcome
\* of the remote fetch, n the outcome of the backup write (WriteChoices).
\* The backup write sits inside the try block, so its failure is caught and
\* the call falls back to the local load like a remote failure.
hybrid_load(file, container, conf, name, get, n) ==
    IF GIST_AVAILABLE /\ initialize_gist_config(conf)
    THEN LET data == load_data_from_gist(container, name, conf, get)
         IN  IF Truthy(data)
             THEN LET w == save_data(data, file, n)
                  IN  [file |-> w.file,
                       out |-> IF w.raised THEN load_data(w.file) ELSE Returned(data),
                       remote |-> data,
                       lw |-> WriteStatus(w, file),
                       log |-> IF w.raised
                               THEN <<"gist_get", "local_write", "local_read">>
                               ELSE <<"gist_get", "local_write">>]
             ELSE [file |-> file, out |-> load_data(file), remote |-> data,
                   lw |-> "none", log |-> <<"gist_get", "local_read">>]
    ELSE [file |-> file, out |-> load_data(file), remote |-> None,
          lw |-> "none", log |-> <<"local_read">>]

\* Faulty variant of the hybrid save: the remote save runs before the local
\* write (the order of save_data_with_fallback).
hybrid_save_remote_first(file, container, conf, name, data, n, get, patch) ==
    LET remoteRuns == GIST_AVAILABLE /\ initialize_gist_config(conf)
        r == IF remoteRuns
             THEN save_data_to_gist(container, data, name, conf, "ok", "ok")
             ELSE [gist |-> container, ok |-> FALSE]
        w == save_data(data, file, n)
    IN  [file |-> w.file, gist |-> r.gist,
         out |-> IF w.raised THEN Raised ELSE Returned(None),
         lw |-> WriteStatus(w, file), remoteOk |-> r.ok,
         log |-> IF remoteRuns
                 THEN <<"gist_get", "gist_patch", "local_write">>
                 ELSE <<"local_write">>]

\* Faulty variant of the hybrid save: a failed remote save raises.
hybrid_save_remote_raises(file, container, conf, name, data, n, get, patch) ==
    LET w == save_data(data, file, n)
    IN  IF w.raised
        THEN [file |-> w.file, gist |-> container, out |-> Raised,
              lw |-> WriteStatus(w, file), remoteOk |-> FALSE,
              log |-> <<"local_write">>]
        ELSE IF GIST_AVAILABLE /\ initialize_gist_config(conf)
        THEN LET r == save_data_to_gist(container, data, name, conf, get, patch)
             IN  [file |-> w.file, gist |-> r.gist,
                  out |-> IF r.ok THEN Returned(None) ELSE Raised,
                  lw |-> "ok", remoteOk |-> r.ok,
                  log |-> <<"local_write", "gist_get">>]
        ELSE [file |-> w.file, gist |-> container, out |-> Returned(None),
              lw |-> "ok", remoteOk |-> FALSE, log |-> <<"local_write">>]

\* save_daily_data(data) / save_weekly_data(data) on document name: n is the
\* outcome of the local write, get and patch those of the two remote requests.
hybrid_save(file, container, conf, name, data, n, get, patch) ==
    LET w == save_data(data, file, n)
    IN  IF w.raised
        THEN [file |-> w.file, gist |-> container, out |-> Raised,
              lw |-> WriteStatus(w, file), remoteOk |-> FALSE,
              log |-> <<"local_write">>]
        ELSE IF GIST_AVAILABLE /\ initialize_gist_config(conf)
        THEN LET r == save_data_to_gist(container, data, name, conf, get, patch)
             IN  [file |-> w.file, gist |-> r.gist, out |-> Returned(None),
                  lw |-> "ok", remoteOk |-> r.ok,
                  log |-> IF get = "ok"
                          THEN <<"local_write", "gist_get", "gist_patch">>
                          ELSE <<"local_write", "gist_get">>]
        ELSE [file |-> w.file, gist |-> container, out |-> Returned(None),
              lw |-> "ok", remoteOk |-> FALSE, log |-> <<"local_write">>]

\* Python's True and False as values a call returns.
True == [t |-> "bool", items |-> <<1>>]
False == [t |-> "bool", items |-> <<>>]

\* Faulty variant of the fallback save: an exception of the local save is not
\* caught.
save_data_with_fallback_local_raises(file, container, conf, name, data, n, get, patch) ==
    LET remoteRuns == initialize_gist_config(conf)
        r == IF remoteRuns
             THEN save_data_to_gist(container, data, name, conf, get, patch)
             ELSE [gist |-> container, ok |-> FALSE]
        w == save_data(data, file, n)
    IN  [file |-> w.file, gist |-> r.gist,
         out |-> IF w.raised THEN Raised ELSE Returned(True),
         lw |-> WriteStatus(w, file), remoteOk |-> r.ok,
         log |-> (IF ~remoteRuns THEN <<>>
                  ELSE IF get = "ok" THEN <<"gist_get", "gist_patch">>
                  ELSE <<"gist_get">>) \o <<"local_write">>]

\* save_data_with_fallback(save_to_gist_func, save_to_local_func, data) with
\* the remote save and the local save of document name as its two functions:
\* the remote save runs first when the credentials resolve, the local save
\* runs after it in a try block of its own, and success is set by either.
save_data_with_fallback(file, container, conf, name, data, n, get, patch) ==
    LET remoteRuns == initialize_gist_config(conf)
        r == IF remoteRuns
             THEN save_data_to_gist(container, data, name, conf, get, patch)
             ELSE [gist |-> container, ok |-> FALSE]
        w == save_data(data, file, n)
        success == r.ok \/ ~w.raised
    IN  [file |-> w.file, gist |-> r.gist,
         out |-> Returned(IF success THEN True ELSE False),
         lw |-> WriteStatus(w, file), remoteOk |-> r.ok,
         log |-> (IF ~remoteRuns THEN <<>>
                  ELSE IF get = "ok" THEN <<"gist_get", "gist_patch">>
                  ELSE <<"gist_get">>) \o <<"local_write">>]

\* ------------------------------------------------------------- actions
\* Outcomes of the remote requests a call can meet; "none" when the request
\* is not made.
GetChoices == IF GIST_AVAILABLE /\ configured THEN {"ok", "fail"} ELSE {"none"}
PatchChoices(get) == IF get = "ok" THEN {"ok", "rejected", "lost"} ELSE {"none"}

\* The collection a load of document name follows: that of the latest save of
\* the document if its local write completed and only loads of the document
\* came after it; None otherwise.
Follows(name) ==
    IF last.name # name THEN None
    ELSE IF last.op = "save" THEN (IF last.out.raised THEN None ELSE last.data)
    ELSE IF last.op \in {"load", "load_wait", "load_answered"} THEN last.prev
    ELSE None

\* A load of document name whose remote request ended as get.
LoadWith(name, get) ==
    LET data == load_data_from_gist(gist, name, config, get)
    IN  \E n \in IF get # "none" /\ Truthy(data)
                 THEN WriteChoices(json_dumps(data)) ELSE {0} :
          LET r == hybrid_load(local[name], gist, config, name, get, n)
          IN  /\ local' = [local EXCEPT ![name] = r.file]
              /\ last' = [op |-> "load", name |-> name, data |-> None,
                          prev |-> Follows(name), get |-> get, patch |-> "none", lw |-> r.lw,
                          remote |-> r.remote, remoteOk |-> FALSE,
                          out |-> r.out, log |-> r.log]
              /\ UNCHANGED <<gist, config, call, page, savers>>

Load(name) == \E get \in GetChoices : LoadWith(name, get)

Save(name) ==
    \E data \in Collections :
      \E n \in WriteChoices(json_dumps(data)) :
        \E get \in IF n = Len(json_dumps(data)) THEN GetChoices ELSE {"none"} :
          \E patch \in PatchChoices(get) :
            LET r == hybrid_save(local[name], gist, config, name, data,
                                 n, get, patch)
            IN  /\ local' = [local EXCEPT ![name] = r.file]
                /\ gist' = r.gist
                /\ last' = [op |-> "save", name |-> name, data |-> data,
                            prev |-> None, get |-> get, patch |-> patch, lw |-> r.lw,
                            remote |-> None, remoteOk |-> r.remoteOk,
                            out |-> r.out, log |-> r.log]
                /\ UNCHANGED <<config, call, page, savers>>

load_daily_data == Load(DAILY_DATA_FILE)
load_weekly_data == Load(WEEKLY_DATA_FILE)
save_daily_data == Save(DAILY_DATA_FILE)
save_weekly_data == Save(WEEKLY_DATA_FILE)

\* --------------------------------------------------------- initial state
\* What the data directory can hold when the application starts: nothing, a
\* document written by an earlier run (complete or cut short), a backup of a
\* remote file that held a list, or undecodable bytes.
LocalFiles ==
    {Absent, Undecodable}
      \cup {TextFile(json_dumps(c)) : c \in Collections}
      \cup {TextFile(<<Chunk("{")>>),
            TextFile(json_dumps(List(<<<<"2024-01-01", 1>>>>)))}

\* What a document of the container can hold: nothing, a collection, or text
\* that is no JSON.
RemoteDocs ==
    {Absent}
      \cup {TextFile(json_dumps(c)) : c \in Collections}
      \cup {TextFile(<<Chunk("{")>>)}

\* The sibling file holds text of its own.
SiblingFiles == {TextFile(<<Chunk("note")>>)}

\* The deployments the coordinator is followed in: both credentials in the
\* environment, or no credential anywhere.
StartConfigs ==
    {[GIST_ID |-> "value", GITHUB_TOKEN |-> "value",
      secret_id |-> Missing, secret_token |-> Missing],
     [GIST_ID |-> Missing, GITHUB_TOKEN |-> Missing,
      secret_id |-> Missing, secret_token |-> Missing]}

\* No date or aggregation function has been called.
NoDateCall == [fn |-> "none", args |-> <<>>, result |-> <<>>]

NoCall ==
    [op |-> "none", name |-> "", data |-> None, prev |-> None, get |-> "none",
     patch |-> "none", lw |-> "none", remote |-> None, remoteOk |-> FALSE,
     out |-> Returned(None), log |-> <<>>]

\* No page script has run.
NoRun ==
    [name |-> "none", pc |-> "done", trigger |-> "none", loaded |-> None,
     key |-> <<>>, submitted |-> FALSE, value |-> 0, saved |-> None,
     trace |-> <<>>]

Init ==
    /\ local \in [Docs -> LocalFiles]
    /\ gist \in {g \in [GistFiles -> RemoteDocs \cup SiblingFiles] :
                   /\ \A d \in Docs : g[d] \in RemoteDocs
                   /\ g[OTHER_FILE] \in SiblingFiles}
    /\ config \in StartConfigs
    \* Without credentials the container is never read: one container stands
    \* for all.
    /\ (~configured => \A d \in Docs : gist[d] = Absent)
    /\ last = NoCall
    /\ call = NoDateCall
    /\ page = NoRun
    /\ savers = <<>>

Next ==
    \/ load_daily_data
    \/ load_weekly_data
    \/ save_daily_data
    \/ save_weekly_data

Spec == Init /\ [][Next]_vars

\* ------------------------------------------ a load, request by request
\* requests.get(url, headers=headers) is a blocking call made without a
\* timeout argument: the load goes on when the service answers or the
\* connection fails, and nothing in the program ends the wait.
Waiting == last.op = "load_wait"
Answered == last.op = "load_answered"
Idle == ~Waiting /\ ~Answered

\* load_*_data() is called.  With the remote store enabled the request is
\* sent and the call waits; without it the local load runs at once.
LoadStart(name) ==
    /\ Idle
    /\ IF GIST_AVAILABLE /\ configured
       THEN /\ last' = [NoCall EXCEPT !.op = "load_wait", !.name = name,
                                      !.prev = Follows(name)]
            /\ UNCHANGED <<local, gist, config, call, page, savers>>
       ELSE LoadWith(name, "none")

\* The service answers the pending request, or the connection fails.
RemoteAnswers ==
    /\ Waiting
    /\ \E get \in {"ok", "fail"} :
         last' = [last EXCEPT !.op = "load_answered", !.get = get]
    /\ UNCHANGED <<local, gist, config, call, page, savers>>

\* The rest of the load once requests.get has returned or raised.
LoadFinish == Answered /\ LoadWith(last.name, last.get)

NextBlocking ==
    \/ LoadStart(DAILY_DATA_FILE)
    \/ LoadStart(WEEKLY_DATA_FILE)
    \/ RemoteAnswers
    \/ LoadFinish

\* The interpreter goes on with the load once the request has ended; neither
\* the user nor the service is bound to act.
SpecBlocking == Init /\ [][NextBlocking]_vars /\ WF_vars(LoadFinish)

\* ------------------------------------- deployments without credentials
\* A credential cannot be resolved when the environment gives no non-empty
\* value for it and the secrets hold no entry for it.
IdResolves(conf) == ~Not(conf.GIST_ID) \/ conf.secret_id # Missing
TokenResolves(conf) == ~Not(conf.GITHUB_TOKEN) \/ conf.secret_token # Missing
Unresolved(conf) == ~IdResolves(conf) \/ ~TokenResolves(conf)

\* The container holds a collection for each document, which no call made
\* without credentials can see.
RemoteHeld == TextFile(json_dumps(Dict(<<<<"2024-01-01", 2>>>>)))

InitNotConfigured ==
    /\ local \in [Docs -> LocalFiles]
    /\ gist = [f \in GistFiles |->
                 IF f \in Docs THEN RemoteHeld ELSE TextFile(<<Chunk("note")>>)]
    /\ config \in {c \in Configs : Unresolved(c)}
    /\ last = NoCall
    /\ call = NoDateCall
    /\ page = NoRun
    /\ savers = <<>>

SpecNotConfigured == InitNotConfigured /\ [][Next]_vars

\* ------------------------------------------------ datetime.date values
\* A date of the proleptic Gregorian calendar, as datetime.date holds it.
Date(y, m, d) == [year |-> y, month |-> m, day |-> d]

is_leap(y) == y % 4 = 0 /\ (y % 100 # 0 \/ y % 400 = 0)

\* calendar.monthrange(year, month)[1]
days_in_month(y, m) ==
    IF m = 2 THEN (IF is_leap(y) THEN 29 ELSE 28)
    ELSE IF m \in {4, 6, 9, 11} THEN 30 ELSE 31

RECURSIVE days_before_month(_, _)
days_before_month(y, m) ==
    IF m = 1 THEN 0 ELSE days_before_month(y, m - 1) + days_in_month(y, m - 1)

days_before_year(y) ==
    (y - 1) * 365 + (y - 1) \div 4 - (y - 1) \div 100 + (y - 1) \div 400

\* date.toordinal(): 0001-01-01 is day 1.
toordinal(d) == days_before_year(d.year) + days_before_month(d.year, d.month) + d.day

\* date.fromordinal(n), by the division steps of the 400-, 100-, 4- and
\* 1-year cycles.
fromordinal(n) ==
    LET n0 == n - 1
        n400 == n0 \div 146097
        r400 == n0 % 146097
        n100 == r400 \div 36524
        r100 == r400 % 36524
        n4 == r100 \div 1461
        r4 == r100 % 1461
        n1 == r4 \div 365
        r1 == r4 % 365
        y == n400 * 400 + 1 + n100 * 100 + n4 * 4 + n1
    IN  IF n1 = 4 \/ n100 = 4 THEN Date(y - 1, 12, 31)
        ELSE LET m == CHOOSE k \in 1..12 :
                        /\ days_before_month(y, k) <= r1
                        /\ r1 < days_before_month(y, k) + days_in_month(y, k)
             IN  Date(y, m, r1 - days_before_month(y, m) + 1)

\* date.weekday(): Monday is 0, Sunday is 6.
weekday(d) == (toordinal(d) + 6) % 7

\* date + timedelta(days=k) and date - date in days.
plus_days(d, k) == fromordinal(toordinal(d) + k)
days_between(a, b) == toordinal(a) - toordinal(b)

\* A Python str is the sequence of its characters.
Digits == {"0", "1", "2", "3", "4", "5", "6", "7", "8", "9"}

\* Decimal digits of n, zero-padded to the given width ("%04d", "%02d").
RECURSIVE Padded(_, _)
Padded(n, width) ==
    IF width = 0 THEN <<>>
    ELSE Append(Padded(n \div 10, width - 1), ToString(n % 10))

\* date.isoformat(): "YYYY-MM-DD".
isoformat(d) ==
    Padded(d.year, 4) \o <<"-">> \o Padded(d.month, 2) \o <<"-">>
      \o Padded(d.day, 2)

\* The number a string of ASCII digits stands for.
RECURSIVE Number(_)
Number(chars) ==
    IF chars = <<>> THEN 0
    ELSE 10 * Number(SubSeq(chars, 1, Len(chars) - 1))
           + (CHOOSE i \in 0..9 : ToString(i) = chars[Len(chars)])

AllDigits(chars) == \A i \in 1..Len(chars) : chars[i] \in Digits

\* -------------------------------------------------------- date_utils.py
\* A cell of the month calendar that holds no day (None).
NoneDate == Date(0, 0, 0)

\* Faulty variant of get_week_start: the days are counted with isoweekday()
\* (Monday is 1).
get_week_start_isoweekday(date) == plus_days(date, 0 - (weekday(date) + 1))

get_week_start(date) == plus_days(date, 0 - weekday(date))

get_week_end(date) == plus_days(get_week_start(date), 6)

\* Faulty variant of get_week_dates: the seven days start at the date given.
get_week_dates_from_date(date) == [i \in 1..7 |-> plus_days(date, i - 1)]

get_week_dates(date) ==
    LET week_start == get_week_start(date)
    IN  [i \in 1..7 |-> plus_days(week_start, i - 1)]

\* The loop of get_month_calendar from day on: week is the row being filled,
\* weeks the rows completed.
RECURSIVE month_weeks(_, _, _, _, _)
month_weeks(year, month, day, week, weeks) ==
    IF day > days_in_month(year, month)
    THEN IF week # <<>>
         THEN Append(weeks, week \o [i \in 1..(7 - Len(week)) |-> NoneDate])
         ELSE weeks
    ELSE LET filled == Append(week, Date(year, month, day))
         IN  IF Len(filled) = 7
             THEN month_weeks(year, month, day + 1, <<>>, Append(weeks, filled))
             ELSE month_weeks(year, month, day + 1, filled, weeks)

\* Faulty variant of get_month_calendar: the leading blanks are counted with
\* isoweekday() (Monday is 1).
get_month_calendar_isoweekday(year, month) ==
    LET first_day == Date(year, month, 1)
    IN  month_weeks(year, month, 1,
                    [i \in 1..(weekday(first_day) + 1) |-> NoneDate], <<>>)

\* get_month_calendar(year, month): the rows of the DataFrame, each of the
\* columns Mon..Sun.
get_month_calendar(year, month) ==
    LET first_day == Date(year, month, 1)
    IN  month_weeks(year, month, 1,
                    [i \in 1..weekday(first_day) |-> NoneDate], <<>>)

get_last_n_days(n, end_date) ==
    [i \in 1..n |-> isoformat(plus_days(end_date, 0 - (i - 1)))]

\* Faulty variant of get_last_n_weeks: the weeks are counted back from the
\* end date itself.
get_last_n_weeks_from_end(n, end_date) ==
    [i \in 1..n |-> isoformat(plus_days(end_date, 0 - 7 * (i - 1)))]

get_last_n_weeks(n, end_date) ==
    LET start_of_week == get_week_start(end_date)
    IN  [i \in 1..n |-> isoformat(plus_days(start_of_week, 0 - 7 * (i - 1)))]

\* NoneDate stands for "no date" where the call raised.
ValueError == [raised |-> TRUE, val |-> NoneDate]

\* datetime.date(year, month, day) on parsed fields: ValueError when a field
\* is out of range.
checked_date(y, m, d) ==
    IF y >= 1 /\ m \in 1..12 /\ d >= 1 /\ d <= days_in_month(y, m)
    THEN [raised |-> FALSE, val |-> Date(y, m, d)]
    ELSE ValueError

\* parse_iso_date(date_str): datetime.date.fromisoformat.  Every interpreter
\* accepts "YYYY-MM-DD"; basic tells whether it also accepts the basic format
\* "YYYYMMDD" (Python 3.11 and later do, earlier ones raise ValueError).
parse_iso_date(date_str, basic) ==
    IF /\ Len(date_str) = 10
       /\ date_str[5] = "-" /\ date_str[8] = "-"
       /\ AllDigits(SubSeq(date_str, 1, 4))
       /\ AllDigits(SubSeq(date_str, 6, 7))
       /\ AllDigits(SubSeq(date_str, 9, 10))
    THEN checked_date(Number(SubSeq(date_str, 1, 4)),
                      Number(SubSeq(date_str, 6, 7)),
                      Number(SubSeq(date_str, 9, 10)))
    ELSE IF basic /\ Len(date_str) = 8 /\ AllDigits(date_str)
    THEN checked_date(Number(SubSeq(date_str, 1, 4)),
                      Number(SubSeq(date_str, 5, 6)),
                      Number(SubSeq(date_str, 7, 8)))
    ELSE ValueError

\* ------------------------------------------- calls of the date utilities
\* The dates the utilities are called with: SpanDays days from 20 December
\* of the second year, across a year end and a 29 February; the months of
\* NumYears years from FirstYear on.
FirstYear == 2018
NumYears == 4
SpanDays == 80
Dates ==
    {plus_days(Date(FirstYear + 1, 12, 20), i) : i \in 0..SpanDays}
Months == {<<y, m>> : y \in FirstYear..(FirstYear + NumYears - 1), m \in 1..12}

\* The end dates and counts the last-n functions are called with: the last
\* SpanEnd days of Dates, and 0..MaxWeeks days or weeks back.
SpanEnd == 13
EndDates ==
    {plus_days(Date(FirstYear + 1, 12, 20), SpanDays - i) : i \in 0..SpanEnd}
MaxWeeks == 4

Called(fn, args, result) == [fn |-> fn, args |-> args, result |-> result]

CallWeekStart ==
    /\ \E d \in Dates :
         call' = Called("get_week_start", <<d>>, get_week_start(d))
    /\ UNCHANGED <<local, gist, config, last, page, savers>>

CallWeekEnd ==
    /\ \E d \in Dates :
         call' = Called("get_week_end", <<d>>, get_week_end(d))
    /\ UNCHANGED <<local, gist, config, last, page, savers>>

CallWeekDates ==
    /\ \E d \in Dates :
         call' = Called("get_week_dates", <<d>>, get_week_dates(d))
    /\ UNCHANGED <<local, gist, config, last, page, savers>>

CallMonthCalendar ==
    /\ \E ym \in Months :
         call' = Called("get_month_calendar", ym,
                        get_month_calendar(ym[1], ym[2]))
    /\ UNCHANGED <<local, gist, config, last, page, savers>>

CallLastNDays ==
    /\ \E n \in 0..MaxWeeks, d \in EndDates :
         call' = Called("get_last_n_days", <<n, d>>, get_last_n_days(n, d))
    /\ UNCHANGED <<local, gist, config, last, page, savers>>

CallLastNWeeks ==
    /\ \E n \in 0..MaxWeeks, d \in EndDates :
         call' = Called("get_last_n_weeks", <<n, d>>, get_last_n_weeks(n, d))
    /\ UNCHANGED <<local, gist, config, last, page, savers>>

InitDates ==
    /\ local = [d \in Docs |-> Absent]
    /\ gist = [f \in GistFiles |-> Absent]
    /\ config \in {c \in StartConfigs : ~initialize_gist_config(c)}
    /\ last = NoCall
    /\ call = NoDateCall
    /\ page = NoRun
    /\ savers = <<>>

NextDates ==
    \/ CallWeekStart
    \/ CallWeekEnd
    \/ CallWeekDates
    \/ CallMonthCalendar
    \/ CallLastNDays
    \/ CallLastNWeeks

SpecDates == InitDates /\ [][NextDates]_vars

\* ---------------------------- recent dates (Daily.py, summary_dashboard.py)
\* The window in days and the number of dates kept.
WithinDays == 60
Limit == 7

\* all_dates.sort() on the dates of the keys ks.
RECURSIVE sorted_dates(_, _)
sorted_dates(ks, date_of) ==
    IF ks = {} THEN <<>>
    ELSE LET k == CHOOSE k \in ks :
                    \A j \in ks : toordinal(date_of[k]) <= toordinal(date_of[j])
         IN  <<date_of[k]>> \o sorted_dates(ks \ {k}, date_of)

\* all_dates after the loop over daily_data.keys() and the sort: the date of
\* every key that parses and lies at most WithinDays days before today.
all_dates(keys, today, basic) ==
    LET parsed == [k \in keys |-> parse_iso_date(k, basic)]
        kept == {k \in keys :
                   /\ ~parsed[k].raised
                   /\ days_between(today, parsed[k].val) <= WithinDays}
    IN  sorted_dates(kept, [k \in kept |-> parsed[k].val])

\* Faulty variant of relevant_dates: the first Limit dates are kept.
relevant_dates_earliest(keys, today, basic) ==
    LET all == all_dates(keys, today, basic)
    IN  IF Len(all) > Limit THEN SubSeq(all, 1, Limit) ELSE all

\* relevant_dates / recent_dates: all_dates[-7:] if len(all_dates) > 7 else
\* all_dates.
relevant_dates(keys, today, basic) ==
    LET all == all_dates(keys, today, basic)
    IN  IF Len(all) > Limit THEN SubSeq(all, Len(all) - Limit + 1, Len(all))
        ELSE all

\* get_today() at the calls followed.
Todays ==
    {plus_days(Date(FirstYear + 1, 12, 20), SpanDays), Date(FirstYear + 2, 1, 5)}

\* Keys of daily_data: the dates of the SpanRecent days up to today, in
\* ISO format, and keys of other kinds.
SpanRecent == 8
RecentKeys(today, k) == {isoformat(plus_days(today, 0 - i)) : i \in 0..(k - 1)}
OtherKeys(today) ==
    {isoformat(plus_days(today, 0 - WithinDays)),
     isoformat(plus_days(today, 0 - WithinDays - 1)),
     isoformat(plus_days(today, 1)),
     isoformat(Date(today.year, 2, 30)),
     <<"n", "/", "a">>,
     Padded(today.year, 4) \o Padded(today.month, 2) \o Padded(today.day, 2)}

\* A page is about to select the recent dates of a collection.
InitRecent ==
    /\ local = [d \in Docs |-> Absent]
    /\ gist = [f \in GistFiles |-> Absent]
    /\ config \in {c \in StartConfigs : ~initialize_gist_config(c)}
    /\ last = NoCall
    /\ page = NoRun
    /\ savers = <<>>
    /\ \E today \in Todays, k \in 0..(SpanRecent + 1), basic \in BOOLEAN :
         \E others \in SUBSET OtherKeys(today) :
           call = Called("render", <<RecentKeys(today, k) \cup others, today,
                                     basic>>, <<>>)

SelectRecentDates ==
    /\ call.fn = "render"
    /\ call' = Called("relevant_dates", call.args,
                      relevant_dates(call.args[1], call.args[2], call.args[3]))
    /\ UNCHANGED <<local, gist, config, last, page, savers>>

SpecRecent == InitRecent /\ [][SelectRecentDates]_vars

\* ------------------------------------------------------ config/settings.py
\* The daily activity catalog: id and type of each entry, in file order.
DAILY_ACTIVITIES ==
    <<[id |-> "jung", type |-> "boolean"],
      [id |-> "english", type |-> "boolean"],
      [id |-> "metaphysics", type |-> "boolean"],
      [id |-> "thesis", type |-> "complex"],
      [id |-> "going_out", type |-> "boolean"],
      [id |-> "bowel_movement", type |-> "boolean"],
      [id |-> "dog_walking", type |-> "boolean"],
      [id |-> "exercise", type |-> "complex"],
      [id |-> "drawing", type |-> "boolean"],
      [id |-> "writing", type |-> "boolean"],
      [id |-> "watching_shows", type |-> "boolean"],
      [id |-> "casual_reading", type |-> "boolean"],
      [id |-> "friends", type |-> "boolean"],
      [id |-> "doi", type |-> "boolean"]>>

\* The mood scale. The labels are written in pinyin for the Chinese of the
\* source: 很差, 差, 一般, 好, 很好.
MOOD_RANGE ==
    <<[value |-> 1, label |-> "hen cha"],
      [value |-> 2, label |-> "cha"],
      [value |-> 3, label |-> "yi ban"],
      [value |-> 4, label |-> "hao"],
      [value |-> 5, label |-> "hen hao"]>>

\* ------------------------------------------- the fields of a daily record
\* A daily record is a function from the names of the fields it holds to
\* their values: booleans, integers, strings of digits, or None (JSON null).
BoolValue(b) == [t |-> "bool", v |-> IF b THEN 1 ELSE 0]
IntValue(n) == [t |-> "int", v |-> n]
StrValue(n) == [t |-> "str", v |-> n]
NoneValue == [t |-> "none", v |-> 0]

\* bool(x) of Python: None, False and 0 are false; a string of digits is not
\* empty.
truthy(x) ==
    IF x.t = "none" THEN FALSE
    ELSE IF x.t = "str" THEN TRUE
    ELSE x.v # 0

\* m == x for an integer m: True equals 1, a string or None equals no integer.
int_eq(m, x) == x.t \in {"int", "bool"} /\ x.v = m

\* record.get(key, default)
dict_get(record, key, default) ==
    IF key \in DOMAIN record THEN record[key] ELSE default

\* ---------------------------------------------------------- pages/Weekly.py
\* The activity lists written out in render_daily_summary.
boolean_activities ==
    <<"jung", "english", "going_out", "bowel_movement", "dog_walking",
      "metaphysics", "drawing", "writing", "watching_shows", "casual_reading",
      "friends">>
complex_activities == <<"exercise", "thesis">>

\* sum(1 for activity in activities if record.get(activity, False))
count_get(record, activities) ==
    Cardinality({i \in 1..Len(activities) :
                   truthy(dict_get(record, activities[i], BoolValue(FALSE)))})

\* activity_count of render_daily_summary for the record of one day.
activity_count(record) ==
    count_get(record, boolean_activities) + count_get(record, complex_activities)

\* Faulty variant of the mood lookup: a value that matches no entry gets the
\* label of the middle of the scale.
mood_label_default_mid(x) ==
    LET hits == {i \in 1..Len(MOOD_RANGE) : int_eq(MOOD_RANGE[i].value, x)}
    IN  IF hits = {} THEN "yi ban"
        ELSE MOOD_RANGE[CHOOSE i \in hits : \A j \in hits : i <= j].label

\* next((m["label"] for m in MOOD_RANGE if m["value"] == x), ""): the label of
\* the first entry whose value equals x, the empty string when there is none.
mood_label(x) ==
    LET hits == {i \in 1..Len(MOOD_RANGE) : int_eq(MOOD_RANGE[i].value, x)}
    IN  IF hits = {} THEN ""
        ELSE MOOD_RANGE[CHOOSE i \in hits : \A j \in hits : i <= j].label

\* The mood cell of the weekly summary table: record.get("mood", None), then
\* the lookup unless pd.notna(x) is false.
summary_mood_label(record) ==
    LET x == dict_get(record, "mood", NoneValue)
    IN  IF x.t = "none" THEN "" ELSE mood_label(x)

\* ------------------------------------------------------ summary_dashboard.py
\* [activity["id"] for activity in DAILY_ACTIVITIES if activity["type"] == type]
activity_ids(type) ==
    LET sel == SelectSeq(DAILY_ACTIVITIES, LAMBDA a : a.type = type)
    IN  [i \in 1..Len(sel) |-> sel[i].id]

boolean_activity_ids == activity_ids("boolean")
complex_activity_ids == activity_ids("complex")

\* sum(1 for act in ids if act in record and record[act])
count_in(record, ids) ==
    Cardinality({i \in 1..Len(ids) :
                   ids[i] \in DOMAIN record /\ truthy(record[ids[i]])})

\* completed of the dashboard for today's record.
completed(record) ==
    count_in(record, boolean_activity_ids) + count_in(record, complex_activity_ids)

\* The mood label of the dashboard card: looked up only if the record holds
\* the field; no card, and so no label, otherwise.
dashboard_mood_label(record) ==
    IF "mood" \in DOMAIN record THEN mood_label(record["mood"]) ELSE ""

\* ------------------------------------------------- records and aggregation
\* The ids of the catalog and the sub-measurements of its complex entries.
ActivityIds == {DAILY_ACTIVITIES[i].id : i \in 1..Len(DAILY_ACTIVITIES)}
Measures == {"exercise_time", "thesis_wordcount"}

\* The record whose flags in done are True; the other flags are absent
\* (shape "bare" and "measured") or False (shape "full"); the sub-measurements
\* are absent (shape "bare") or hold a positive number.
ActivityRecord(done, shape) ==
    LET flags == IF shape = "full" THEN ActivityIds ELSE done
        held == IF shape = "bare" THEN flags ELSE flags \cup Measures
    IN  [f \in held |-> IF f \in Measures THEN IntValue(30) ELSE BoolValue(f \in done)]

\* Mood values a record can hold: integers around the scale, a string of a
\* digit, None. MoodSpan integers lie on each side of zero.
MoodSpan == 7
MoodValues ==
    {IntValue(n) : n \in (0 - MoodSpan)..MoodSpan} \cup {StrValue(3), NoneValue}

\* Records that hold a mood next to a completed activity, and the record that
\* holds no field.
MoodRecords ==
    {[f \in {"mood", "jung"} |-> IF f = "mood" THEN x ELSE BoolValue(TRUE)] :
       x \in MoodValues}

\* A page is about to aggregate the record of one day.
InitAggregates ==
    /\ local = [d \in Docs |-> Absent]
    /\ gist = [f \in GistFiles |-> Absent]
    /\ config \in {c \in StartConfigs : ~initialize_gist_config(c)}
    /\ last = NoCall
    /\ page = NoRun
    /\ savers = <<>>
    /\ \E record \in MoodRecords
                     \cup {ActivityRecord(done, shape) :
                             done \in SUBSET ActivityIds,
                             shape \in {"bare", "measured", "full"}} :
         call = Called("record", <<record>>, <<>>)

\* The weekly page counts the completed activities of the record.
RenderDailySummaryCount ==
    /\ call.fn = "record"
    /\ call' = Called("activity_count", call.args,
                      <<activity_count(call.args[1])>>)
    /\ UNCHANGED <<local, gist, config, last, page, savers>>

\* The weekly page shows the mood label of the record.
RenderDailySummaryMood ==
    /\ call.fn = "record"
    /\ call' = Called("summary_mood_label", call.args,
                      <<summary_mood_label(call.args[1])>>)
    /\ UNCHANGED <<local, gist, config, last, page, savers>>

\* The dashboard counts the completed activities of the record.
DashboardCompleted ==
    /\ call.fn = "record"
    /\ call' = Called("completed", call.args, <<completed(call.args[1])>>)
    /\ UNCHANGED <<local, gist, config, last, page, savers>>

\* The dashboard shows the mood label of the record.
DashboardMood ==
    /\ call.fn = "record"
    /\ call' = Called("dashboard_mood_label", call.args,
                      <<dashboard_mood_label(call.args[1])>>)
    /\ UNCHANGED <<local, gist, config, last, page, savers>>

NextAggregates ==
    \/ RenderDailySummaryCount
    \/ RenderDailySummaryMood
    \/ DashboardCompleted
    \/ DashboardMood

SpecAggregates == InitAggregates /\ [][NextAggregates]_vars

\* ------------------------------------------ remote saves of two sessions
\* Two script runs (two browser sessions of the application) each call
\* save_data_to_gist once. Between the GET of a call and its PATCH the other
\* call can run.

\* requests.get of save_data_to_gist(data, name) in session s: the response
\* holds the container as it is now; a failed request ends the call with
\* False.
SaverFetch(s) ==
    /\ s \notin DOMAIN savers
    /\ configured
    /\ \E name \in Docs, data \in Collections, get \in {"ok", "fail"} :
         savers' = savers @@
                     (s :> [pc |-> IF get = "ok" THEN "fetched" ELSE "done",
                            name |-> name, data |-> data, fetched |-> gist,
                            ok |-> FALSE])
    /\ UNCHANGED <<local, gist, config, last, call, page>>

\* requests.patch of the call in session s: the body names the session's file
\* with the new content and every other file with the content fetched by the
\* GET. The call returns True if the response arrives with a success status.
SaverSubmit(s) ==
    /\ s \in DOMAIN savers
    /\ savers[s].pc = "fetched"
    /\ \E patch \in {"ok", "rejected", "lost"} :
         LET files == files_data(savers[s].fetched, savers[s].data,
                                 savers[s].name)
         IN  /\ gist' = IF patch = "rejected" THEN gist
                        ELSE ApplyPatch(gist, files)
             /\ savers' = [savers EXCEPT ![s].pc = "done",
                                         ![s].ok = (patch = "ok")]
    /\ UNCHANGED <<local, config, last, call, page>>

\* The credentials resolve and the data directory is empty.
InitInterleaved ==
    /\ Init
    /\ configured
    /\ \A d \in Docs : local[d] = Absent

NextInterleaved ==
    \E s \in {"a", "b"} : SaverFetch(s) \/ SaverSubmit(s)

SpecInterleaved == InitInterleaved /\ [][NextInterleaved]_vars

\* ------------------------------------------------- pages: Daily and Weekly
\* A collection of a page is a dict from the ISO text of a date to the record
\* of that date. The record a form submits is built from the form's inputs
\* alone (data_to_save), so a number stands for one filling of the form; 0 is
\* the empty record {} the form inserts for a key it does not find.
dict_keys(c) == {c.items[i][1] : i \in 1..Len(c.items)}

\* c[key] for a key of c.
dict_at(c, key) ==
    c.items[CHOOSE i \in 1..Len(c.items) : c.items[i][1] = key][2]

\* Faulty variant of the assignment: the collection is started afresh with
\* the one record.
dict_set_fresh(c, key, val) == Dict(<<<<key, val>>>>)

\* c[key] = val: the entry of an existing key is replaced where it stands, a
\* new key is added at the end.
dict_set(c, key, val) ==
    IF key \in dict_keys(c)
    THEN Dict([i \in 1..Len(c.items) |->
                 IF c.items[i][1] = key THEN <<key, val>> ELSE c.items[i]])
    ELSE Dict(Append(c.items, <<key, val>>))

\* The collection a form leaves in memory for the key: with the empty record
\* inserted if the key was missing, then, on submit, the record replaced by
\* the submitted one.
form_data(data, key, submitted, value) ==
    LET shown == IF key \in dict_keys(data) THEN data ELSE dict_set(data, key, 0)
    IN  IF submitted THEN dict_set(shown, key, value) ELSE shown

\* Faulty variant of the week selector: the weeks are counted back from today.
render_week_selector_from_today(today, idx) == plus_days(today, 0 - 7 * idx)

\* render_week_selector(): the start of the week chosen in the select box,
\* idx weeks before the current week.
render_week_selector(today, idx) ==
    plus_days(get_week_start(today), 0 - 7 * idx)

\* The record of a coordinator call as the variable last keeps it.
LoadCall(name, get, r, prev) ==
    [op |-> "load", name |-> name, data |-> None, prev |-> prev, get |-> get,
     patch |-> "none", lw |-> r.lw, remote |-> r.remote, remoteOk |-> FALSE,
     out |-> r.out, log |-> r.log]
SaveCall(name, data, get, patch, r) ==
    [op |-> "save", name |-> name, data |-> data, prev |-> None, get |-> get,
     patch |-> patch, lw |-> r.lw, remote |-> None, remoteOk |-> r.remoteOk,
     out |-> r.out, log |-> r.log]

\* Faulty variant of the run: st.rerun() is left out, so the script goes on
\* after the save with the collection it has in memory.
page_run_no_rerun(pagename, name, loc, container, conf, ld, ldcall, trigger, key, submitted, value, n, get, patch, upto, before, after) ==
    IF ld.out.raised \/ ld.out.val.t # "dict"
    THEN \* an exception of the load, or of the first use of a loaded value
         \* that is no dict, ends the run before the form is drawn
         [local |-> loc, gist |-> container, last |-> ldcall,
          page |-> [name |-> pagename, pc |-> "error", trigger |-> trigger,
                    loaded |-> None, key |-> key, submitted |-> FALSE,
                    value |-> 0, saved |-> None, trace |-> upto]]
    ELSE IF ~submitted
    THEN [local |-> loc, gist |-> container, last |-> ldcall,
          page |-> [name |-> pagename, pc |-> "done", trigger |-> trigger,
                    loaded |-> ld.out.val, key |-> key, submitted |-> FALSE,
                    value |-> 0, saved |-> None,
                    trace |-> upto \o before \o <<"form">> \o after]]
    ELSE LET data == form_data(ld.out.val, key, TRUE, value)
             sv == hybrid_save(loc[name], container, conf, name, data, n, get,
                               patch)
         IN  [local |-> [loc EXCEPT ![name] = sv.file], gist |-> sv.gist,
              last |-> SaveCall(name, data, get, patch, sv),
              page |-> [name |-> pagename,
                        pc |-> IF sv.out.raised THEN "error" ELSE "done",
                        trigger |-> trigger, loaded |-> ld.out.val,
                        key |-> key, submitted |-> TRUE, value |-> value,
                        saved |-> data,
                        trace |-> upto \o before \o <<"form", "save">>
                                   \o (IF sv.out.raised THEN <<>>
                                       ELSE after)]]

\* The run of a page script from its last load on: ld is that load, done on
\* the files loc and the container, and ldcall its record; name is the
\* document of the page's form; the widgets give key, submitted and value; n,
\* get and patch are the outcomes of the save's requests. upto lists the steps
\* of the script up to that load, before those between the load and the form,
\* after those that follow the form. The result is the stores, the latest
\* coordinator call and the run as the variable page keeps it.
page_run(pagename, name, loc, container, conf, ld, ldcall, trigger, key, submitted, value, n, get, patch, upto, before, after) ==
    IF ld.out.raised \/ ld.out.val.t # "dict"
    THEN \* an exception of the load, or of the first use of a loaded value
         \* that is no dict, ends the run before the form is drawn
         [local |-> loc, gist |-> container, last |-> ldcall,
          page |-> [name |-> pagename, pc |-> "error", trigger |-> trigger,
                    loaded |-> None, key |-> key, submitted |-> FALSE,
                    value |-> 0, saved |-> None, trace |-> upto]]
    ELSE IF ~submitted
    THEN [local |-> loc, gist |-> container, last |-> ldcall,
          page |-> [name |-> pagename, pc |-> "done", trigger |-> trigger,
                    loaded |-> ld.out.val, key |-> key, submitted |-> FALSE,
                    value |-> 0, saved |-> None,
                    trace |-> upto \o before \o <<"form">> \o after]]
    ELSE LET data == form_data(ld.out.val, key, TRUE, value)
             sv == hybrid_save(loc[name], container, conf, name, data, n, get,
                               patch)
         IN  [local |-> [loc EXCEPT ![name] = sv.file], gist |-> sv.gist,
              last |-> SaveCall(name, data, get, patch, sv),
              page |-> [name |-> pagename,
                        pc |-> IF sv.out.raised THEN "error" ELSE "rerun",
                        trigger |-> trigger, loaded |-> ld.out.val,
                        key |-> key, submitted |-> TRUE, value |-> value,
                        saved |-> data,
                        trace |-> upto \o before \o <<"form", "save">>
                                   \o (IF sv.out.raised THEN <<>>
                                       ELSE <<"rerun">>)]]

\* What starts a run: st.rerun() of the run before, or the user.
Triggers == IF page.pc = "rerun" THEN {"rerun"} ELSE {"view"}

\* The outcomes of the backup write of a load that got data from the gist.
BackupChoices(name, get) ==
    LET data == load_data_from_gist(gist, name, config, get)
    IN  IF get # "none" /\ Truthy(data)
        THEN WriteChoices(json_dumps(data)) ELSE {0}

\* The outcomes of the requests of a save of data: the remote requests are
\* made only after a complete local write.
SaveChoices(data) ==
    {c \in WriteChoices(json_dumps(data)) \X {"ok", "fail", "none"}
             \X {"ok", "rejected", "lost", "none"} :
       /\ c[2] \in (IF c[1] = Len(json_dumps(data))
                    THEN GetChoices ELSE {"none"})
       /\ c[3] \in PatchChoices(c[2])}

\* The outcomes of the save of a run whose load gave ld: none when the form is
\* not submitted or the run ended before the form.
RunSaveChoices(ld, key, submitted, value) ==
    IF submitted /\ ~ld.out.raised /\ ld.out.val.t = "dict"
    THEN SaveChoices(form_data(ld.out.val, key, TRUE, value))
    ELSE {<<0, "none", "none">>}

\* Today's date and the dates the user picks; the fillings of a form; the
\* entries of the week select box the user picks (the first and the last).
PageDates == {Date(FirstYear + 2, 1, 1), Date(FirstYear + 1, 12, 30)}
FormValues == {1}
SelectableWeeks == {0, 7}

\* The keys the forms derive from the selections: the ISO text of the picked
\* date, and of the start of the picked week.
DayKeys == {isoformat(d) : d \in PageDates}
WeekKeys ==
    {isoformat(render_week_selector(today, idx)) :
       today \in PageDates, idx \in SelectableWeeks}

\* What the widgets of a run give: a rerun keeps the selection and finds the
\* submit button released; the filling matters only to a submitted form.
SelectedKeys(trigger, keys) == IF trigger = "rerun" THEN {page.key} ELSE keys
Submitted(trigger) == IF trigger = "rerun" THEN {FALSE} ELSE BOOLEAN
Fillings(submitted) == IF submitted THEN FormValues ELSE {0}

\* A run of pages/Daily.py: main().
DailyPage ==
    /\ page.pc = "rerun" => page.name = "Daily"
    /\ \E trigger \in Triggers, get \in GetChoices :
       \E nb \in BackupChoices(DAILY_DATA_FILE, get) :
       \E ld \in {hybrid_load(local[DAILY_DATA_FILE], gist, config,
                              DAILY_DATA_FILE, get, nb)} :
       \E key \in SelectedKeys(trigger, DayKeys),
          submitted \in Submitted(trigger) :
       \E value \in Fillings(submitted) :
       \E c \in RunSaveChoices(ld, key, submitted, value) :
       \E o \in {page_run("Daily", DAILY_DATA_FILE,
                          [local EXCEPT ![DAILY_DATA_FILE] = ld.file], gist,
                          config, ld,
                          LoadCall(DAILY_DATA_FILE, get, ld,
                                   Follows(DAILY_DATA_FILE)),
                          trigger, key, submitted, value, c[1], c[2], c[3],
                          <<"header", "load">>,
                          <<"date_selector", "week_view">>,
                          <<"statistics">>)} :
         /\ local' = o.local
         /\ gist' = o.gist
         /\ last' = o.last
         /\ page' = o.page
    /\ UNCHANGED <<config, call, savers>>

\* The loads of pages/Weekly.py: the daily document for the summary, then the
\* weekly document for the form, unless the first load raised. The result is
\* the files, the last load made, its record and the steps made so far.
weekly_loads(loc, container, conf, prev, get1, nb1, get2, nb2) ==
    LET ld1 == hybrid_load(loc[DAILY_DATA_FILE], container, conf,
                           DAILY_DATA_FILE, get1, nb1)
        loc1 == [loc EXCEPT ![DAILY_DATA_FILE] = ld1.file]
        ld2 == hybrid_load(loc1[WEEKLY_DATA_FILE], container, conf,
                           WEEKLY_DATA_FILE, get2, nb2)
    IN  IF ld1.out.raised
        THEN [local |-> loc1, ld |-> ld1,
              call |-> LoadCall(DAILY_DATA_FILE, get1, ld1, prev),
              upto |-> <<"header", "load_daily">>]
        ELSE [local |-> [loc1 EXCEPT ![WEEKLY_DATA_FILE] = ld2.file],
              ld |-> ld2,
              call |-> LoadCall(WEEKLY_DATA_FILE, get2, ld2, None),
              upto |-> <<"header", "load_daily", "load">>]

\* A run of pages/Weekly.py: main().
WeeklyPage ==
    /\ page.pc = "rerun" => page.name = "Weekly"
    /\ \E trigger \in Triggers, get1 \in GetChoices, get2 \in GetChoices :
       \E nb1 \in BackupChoices(DAILY_DATA_FILE, get1),
          nb2 \in BackupChoices(WEEKLY_DATA_FILE, get2) :
       \E w \in {weekly_loads(local, gist, config, Follows(DAILY_DATA_FILE),
                              get1, nb1, get2, nb2)} :
       \E key \in SelectedKeys(trigger, WeekKeys),
          submitted \in Submitted(trigger) :
       \E value \in Fillings(submitted) :
       \E c \in RunSaveChoices(w.ld, key, submitted, value) :
       \E o \in {page_run("Weekly", WEEKLY_DATA_FILE, w.local, gist, config,
                          w.ld, w.call, trigger, key, submitted, value,
                          c[1], c[2], c[3], w.upto,
                          <<"week_selector", "month_calendar",
                            "daily_summary">>,
                          <<"weekly_trends">>)} :
         /\ local' = o.local
         /\ gist' = o.gist
         /\ last' = o.last
         /\ page' = o.page
    /\ UNCHANGED <<config, call, savers>>

\* The collection an earlier session left for a document: one record, under
\* a key that session's form derived (a date the user can pick again, the
\* week of the last entry of the select box).
EarlierKeys ==
    [d \in Docs |->
       IF d = DAILY_DATA_FILE THEN isoformat(Date(FirstYear + 1, 12, 30))
       ELSE isoformat(render_week_selector(Date(FirstYear + 1, 12, 30), 7))]
EarlierFiles ==
    [d \in Docs |-> TextFile(json_dumps(Dict(<<<<EarlierKeys[d], 2>>>>)))]

\* The application starts with the document of the page's form absent or as
\* an earlier session left it, locally and, with credentials, in the gist;
\* the other document is in no gist, so that its local copy stays as it is.
InitPage(name) ==
    /\ config \in StartConfigs
    /\ local \in [Docs -> {Absent} \cup {EarlierFiles[d] : d \in Docs}]
    /\ \A d \in Docs : local[d] \in {Absent, EarlierFiles[d]}
    /\ gist \in [GistFiles -> {Absent} \cup SiblingFiles
                                \cup {EarlierFiles[d] : d \in Docs}]
    /\ gist[OTHER_FILE] \in SiblingFiles
    /\ \A d \in Docs :
         gist[d] \in IF configured /\ d = name
                     THEN {Absent, EarlierFiles[d]} ELSE {Absent}
    /\ last = NoCall
    /\ call = NoDateCall
    /\ page = NoRun
    /\ savers = <<>>

SpecDailyPage == InitPage(DAILY_DATA_FILE) /\ [][DailyPage]_vars

SpecWeeklyPage == InitPage(WEEKLY_DATA_FILE) /\ [][WeeklyPage]_vars

\* ------------------------------------------------- save with fallback
\* A save of document name through save_data_with_fallback.
SaveWithFallback(name) ==
    \E data \in Collections :
      \E n \in WriteChoices(json_dumps(data)) :
        \E get \in GetChoices :
          \E patch \in PatchChoices(get) :
            LET r == save_data_with_fallback(local[name], gist, config, name,
                                             data, n, get, patch)
            IN  /\ local' = [local EXCEPT ![name] = r.file]
                /\ gist' = r.gist
                /\ last' = [op |-> "save_with_fallback", name |-> name,
                            data |-> data, prev |-> None, get |-> get,
                            patch |-> patch, lw |-> r.lw, remote |-> None,
                            remoteOk |-> r.remoteOk, out |-> r.out,
                            log |-> r.log]
                /\ UNCHANGED <<config, call, page, savers>>

\* The application starts with an empty data directory.
InitFallback == Init /\ \A d \in Docs : local[d] = Absent

\* No page calls the wrapper; it is followed on the daily document, with the
\* weekly document and the sibling file as bystanders.
SpecFallback == InitFallback /\ [][SaveWithFallback(DAILY_DATA_FILE)]_vars

\* ============================================================ properties
\* The remote load of the latest call reached the service and found no usable
\* collection: the request failed, the named file is missing, or its content
\* does not parse.
RemoteFailed ==
    \/ last.get = "fail"
    \/ /\ last.get = "ok"
       /\ \/ gist[last.name].kind = "absent"
          \/ ~json_loads(gist[last.name].text).ok

\* The file holds a JSON mapping.
HoldsMapping(file) ==
    /\ file.kind = "text"
    /\ json_loads(file.text).ok
    /\ json_loads(file.text).val.t = "dict"

\* C1: whenever the remote load succeeds with a non-empty collection R, the
\* hybrid load returns R and the local document holds R afterwards, whatever
\* it held before.
C1_RemotePreferred ==
    (last.op = "load" /\ last.get = "ok" /\ Truthy(last.remote))
      => /\ last.out = Returned(last.remote)
         /\ load_data(local[last.name]) = Returned(last.remote)

\* C2: when the remote load succeeds with an empty collection, the hybrid load
\* returns what the local load gives on the untouched local document: the
\* stored collection when it holds one, and no local file is written.
C2_RemoteEmptyKeepsLocal ==
    [][\A d \in Docs :
         (/\ last'.op = "load" /\ last'.name = d /\ last'.get = "ok"
          /\ gist[d].kind = "text"
          /\ json_loads(gist[d].text) = [ok |-> TRUE, val |-> EmptyDict])
           => /\ local' = local
              /\ last'.out = load_data(local[d])
              /\ \A c \in Collections :
                   local[d] = TextFile(json_dumps(c)) => last'.out = Returned(c)]_vars

C2_Witness ==
    /\ last.op = "load" /\ last.get = "ok"
    /\ gist[last.name] = TextFile(json_dumps(EmptyDict))
    /\ ~last.out.raised /\ last.out.val.t = "dict" /\ Truthy(last.out.val)
    /\ local[last.name] = TextFile(json_dumps(last.out.val))

\* C3: on any remote failure during a load the hybrid load does not raise and
\* returns the result of the local load.
C3_RemoteFailureFallsBack ==
    (last.op = "load" /\ RemoteFailed)
      => /\ ~last.out.raised
         /\ last.out = load_data(local[last.name])

\* C4: a hybrid save writes locally before any remote request; when the local
\* write fails the save raises, and no remote request is made, so the
\* container is as it was.
C4_LocalWriteFirst ==
    [][last'.op = "save"
         => /\ Len(last'.log) >= 1 /\ last'.log[1] = "local_write"
            /\ (last'.lw # "ok"
                  => /\ last'.out.raised
                     /\ last'.log = <<"local_write">>
                     /\ ~last'.remoteOk
                     /\ gist' = gist)]_vars

C4_Witness ==
    /\ last.op = "save" /\ configured
    /\ last.lw \in {"open_failed", "partial"}
    /\ last.out.raised

\* C5: when the local write of a hybrid save completes, the save returns
\* normally whatever the remote requests did, and the local document then
\* loads as the saved collection.
C5_LocalSuccessIsSuccess ==
    (last.op = "save" /\ last.lw = "ok")
      => /\ ~last.out.raised
         /\ load_data(local[last.name]) = Returned(last.data)

C5_Witness ==
    /\ last.op = "save" /\ last.lw = "ok"
    /\ last.get = "ok" /\ last.patch = "rejected" /\ ~last.remoteOk
    /\ ~last.out.raised
    /\ Truthy(last.data)

\* C6: a load that follows a save of the same document whose local write
\* completed (only loads of that document in between) returns the saved
\* collection, whatever the remote requests did.
C6_SavedThenLoaded ==
    (last.op = "load" /\ last.prev # None)
      => last.out = Returned(last.prev)

\* C7: with only the local store configured, a load that follows a save of
\* the same document returns a collection equal to the saved one.
C7_LocalRoundTrip ==
    (last.op = "load" /\ ~configured /\ last.prev # None)
      => /\ ~last.out.raised
         /\ DictEq(last.out.val, last.prev)

C7_Witness ==
    /\ last.op = "load" /\ ~configured
    /\ last.prev # None /\ Truthy(last.prev)
    /\ last.out = Returned(last.prev)

\* C8: the local load never raises, and returns an empty collection when the
\* document is absent or does not hold a JSON mapping.
C8_LocalLoadTotal ==
    (last.op = "load" /\ \E i \in 1..Len(last.log) : last.log[i] = "local_read")
      => /\ ~last.out.raised
         /\ (~HoldsMapping(local[last.name]) => last.out.val = EmptyDict)

\* C9: a remote save that succeeds leaves every other file of the container
\* exactly as it was: present files keep their content, no file disappears
\* and none appears.
C9_SiblingsPreserved ==
    [][(last'.op = "save" /\ last'.remoteOk)
         => \A f \in GistFiles \ {last'.name} : gist'[f] = gist[f]]_vars

C9_Witness ==
    /\ last.op = "save" /\ last.remoteOk
    /\ gist[last.name] = TextFile(json_dumps(last.data))
    /\ \A f \in GistFiles \ {last.name} :
         gist[f].kind = "text" /\ gist[f].text # json_dumps(last.data)

\* C10 as claimed: a remote save that fails leaves the container unchanged.
C10_FailedSaveLeavesRemote ==
    [][(last'.op = "save" /\ last'.get # "none" /\ ~last'.remoteOk)
         => gist' = gist]_vars

\* C10 amended: a remote save that fails at the fetch or whose update is
\* refused leaves the container unchanged; when the service applied the update
\* and only the response was lost, the container holds the whole update (the
\* named file replaced, every other file as it was).  No failed save leaves a
\* part of an update.
C10_FailedSaveNotPartial ==
    [][(last'.op = "save" /\ last'.get # "none" /\ ~last'.remoteOk)
         => IF last'.patch = "lost"
            THEN /\ gist'[last'.name] = TextFile(json_dumps(last'.data))
                 /\ \A f \in GistFiles \ {last'.name} : gist'[f] = gist[f]
            ELSE gist' = gist]_vars

C10_Witness ==
    /\ last.op = "save" /\ last.get = "ok" /\ last.patch = "rejected"
    /\ ~last.remoteOk
    /\ gist[last.name].kind = "text"
    /\ gist[last.name].text # json_dumps(last.data)

\* C11 as claimed: a local save is atomic.  After any save call, however its
\* write ended, the local document is either the complete content it held
\* before the call or the complete new content, so a following load never
\* meets an empty or half-written document.
C11_SaveAtomic ==
    [][\A d \in Docs :
         (last'.op = "save" /\ last'.name = d)
           => \/ local'[d] = local[d]
              \/ local'[d] = TextFile(json_dumps(last'.data))]_vars

C13_NoDataDistinct ==
    (last.op = "load" /\ last.get = "ok" /\ gist[last.name].kind = "absent")
      => last.remote #
           load_data_from_gist(
             [gist EXCEPT ![last.name] = TextFile(json_dumps(EmptyDict))],
             last.name, config, "ok")

\* C13 amended: the remote load returns the same value, an empty dict, when
\* the named file is missing and when it holds an empty mapping; the cases
\* differ only in the warning shown to the user for the missing file.
C13_NoDataIsEmptyDict ==
    (/\ last.op = "load" /\ last.get = "ok"
     /\ gist[last.name] \in {Absent, TextFile(json_dumps(EmptyDict))})
      => /\ last.remote = EmptyDict
         /\ load_data_from_gist_shown(gist, last.name, config, "ok") =
              IF gist[last.name] = Absent THEN "warning" ELSE "none"

C13_Witness ==
    /\ last.op = "load" /\ last.name = DAILY_DATA_FILE /\ last.get = "ok"
    /\ gist[DAILY_DATA_FILE] = Absent
    /\ gist[WEEKLY_DATA_FILE] = TextFile(json_dumps(EmptyDict))
    /\ last.remote = EmptyDict

\* The remote load of the latest call failed in transport, authorisation or
\* parsing.
RemoteLoadError ==
    /\ last.op = "load"
    /\ \/ last.get = "fail"
       \/ /\ last.get = "ok" /\ gist[last.name].kind = "text"
          /\ ~json_loads(gist[last.name].text).ok

\* The remote save of the latest call was attempted and a request of it
\* failed.
RemoteSaveError ==
    /\ last.op = "save" /\ last.get # "none"
    /\ (last.get = "fail" \/ last.patch # "ok")

\* C14 as claimed: a failure of the remote load or save reaches the caller as
\* an outcome that differs from every successful result: a failed load does
\* not give what a successful load of an empty collection gives, and a failed
\* save does not report success.
C14_FailureSignalled ==
    /\ RemoteLoadError
         => last.remote #
              load_data_from_gist(
                [gist EXCEPT ![last.name] = TextFile(json_dumps(EmptyDict))],
                last.name, config, "ok")
    /\ RemoteSaveError => ~last.remoteOk

\* C14 amended: a failed remote load returns an empty dict, the value of a
\* successfully loaded empty collection, and shows the cause to the user as
\* an error message only; a remote save returns True exactly when both of its
\* requests succeeded and False on any failure.
C14_FailureAsEmptyOrFalse ==
    /\ RemoteLoadError
         => /\ last.remote = EmptyDict
            /\ load_data_from_gist_shown(gist, last.name, config, last.get)
                 = "error"
    /\ (last.op = "save" /\ last.get # "none")
         => (last.remoteOk <=> (last.get = "ok" /\ last.patch = "ok"))

C14_Witness ==
    /\ RemoteLoadError /\ last.get = "fail"
    /\ last.remote = EmptyDict
    /\ HoldsMapping(gist[last.name])
    /\ Truthy(json_loads(gist[last.name].text).val)

\* C15 as claimed: a load that has been called always eventually returns,
\* also when the remote store is down or never answers.
C15_LoadReturns == Waiting ~> (last.op = "load")

\* C16: for every date d, get_week_start(d) is a Monday, lies at most 6 days
\* before d and never after it, and is its own week start.
C16_WeekStart ==
    call.fn = "get_week_start"
      => LET d == call.args[1]
             s == call.result
         IN  /\ weekday(s) = 0
             /\ days_between(d, s) \in 0..6
             /\ get_week_start(s) = s

C16_Witness ==
    /\ call.fn = "get_week_start"
    /\ weekday(call.args[1]) = 6
    /\ call.args[1].month = 3 /\ call.args[1].day = 1
    /\ call.result = Date(call.args[1].year, 2, 24)

\* C17: for every date d, get_week_dates(d) has exactly 7 elements, each one
\* day after the one before; the first is get_week_start(d), the last is
\* get_week_end(d), which is get_week_start(d) + 6 days, and d is among them.
C17_WeekDates ==
    /\ call.fn = "get_week_dates"
         => LET d == call.args[1]
                w == call.result
            IN  /\ Len(w) = 7
                /\ \A i \in 1..6 : days_between(w[i + 1], w[i]) = 1
                /\ w[1] = get_week_start(d)
                /\ w[7] = get_week_end(d)
                /\ days_between(w[7], w[1]) = 6
                /\ \E i \in 1..7 : w[i] = d
    /\ call.fn = "get_week_end"
         => days_between(call.result, get_week_start(call.args[1])) = 6

C17_Witness ==
    /\ call.fn = "get_week_dates"
    /\ call.args[1].month = 1 /\ call.args[1].day = 3
    /\ call.result[1].month = 12 /\ call.result[1].day = 30
    /\ call.result[1].year = call.args[1].year - 1
    /\ call.result[7] = Date(call.args[1].year, 1, 5)

\* C18: get_month_calendar(year, month) has ceil((b + n) / 7) rows of exactly
\* 7 columns, b the weekday of the 1st and n the days of the month; day k is
\* the cell b + k in row-major order, which is the column of its weekday, and
\* every other cell is empty.
C18_MonthGrid ==
    call.fn = "get_month_calendar"
      => LET year == call.args[1]
             month == call.args[2]
             rows == call.result
             b == weekday(Date(year, month, 1))
             n == days_in_month(year, month)
         IN  /\ Len(rows) = (b + n + 6) \div 7
             /\ \A r \in 1..Len(rows) : Len(rows[r]) = 7
             /\ \A r \in 1..Len(rows) : \A c \in 1..7 :
                  LET k == 7 * (r - 1) + c - b
                  IN  IF k \in 1..n
                      THEN /\ rows[r][c] = Date(year, month, k)
                           /\ weekday(rows[r][c]) = c - 1
                      ELSE rows[r][c] = NoneDate

C18_Witness ==
    /\ call.fn = "get_month_calendar"
    /\ call.args[2] = 2 /\ is_leap(call.args[1])
    /\ Len(call.result) = 5
    /\ call.result[1][5] = NoneDate
    /\ call.result[1][6] = Date(call.args[1], 2, 1)
    /\ call.result[5][6] = Date(call.args[1], 2, 29)
    /\ call.result[5][7] = NoneDate

\* C19: for every n >= 0 and end date, get_last_n_weeks(n, end) returns
\* exactly n ISO dates; each is a Monday, the first is get_week_start(end) and
\* each following one is 7 days before the one before it.
C19_LastNWeeks ==
    call.fn = "get_last_n_weeks"
      => LET n == call.args[1]
             end == call.args[2]
             w == call.result
             at(i) == parse_iso_date(w[i], FALSE)
         IN  /\ Len(w) = n
             /\ \A i \in 1..n : ~at(i).raised /\ weekday(at(i).val) = 0
             /\ n >= 1 => at(1).val = get_week_start(end)
             /\ \A i \in 1..(n - 1) :
                  days_between(at(i).val, at(i + 1).val) = 7

C19_Witness ==
    /\ call.fn = "get_last_n_weeks"
    /\ call.args[1] = 3
    /\ call.args[2].month = 3 /\ call.args[2].day = 7
    /\ call.result[1] = <<"2", "0", "2", "0", "-", "0", "3", "-", "0", "2">>
    /\ call.result[2] = <<"2", "0", "2", "0", "-", "0", "2", "-", "2", "4">>
    /\ call.result[3] = <<"2", "0", "2", "0", "-", "0", "2", "-", "1", "7">>

\* The keys of the latest selection that parse to a date inside the window.
InWindow ==
    {k \in call.args[1] :
       /\ ~parse_iso_date(k, call.args[3]).raised
       /\ days_between(call.args[2], parse_iso_date(k, call.args[3]).val)
            <= WithinDays}

\* How often date d occurs in the sequence r.
Occurs(d, r) == Cardinality({i \in 1..Len(r) : r[i] = d})

\* The selection holds one entry for each of the latest Limit keys of the
\* window, in ascending order.
LatestOfWindow ==
    LET basic == call.args[3]
        r == call.result
        keysOf(d) == {k \in InWindow : parse_iso_date(k, basic).val = d}
    IN  /\ Len(r) = IF Cardinality(InWindow) > Limit THEN Limit
                    ELSE Cardinality(InWindow)
        /\ \A i \in 1..(Len(r) - 1) : toordinal(r[i]) <= toordinal(r[i + 1])
        /\ \A i \in 1..Len(r) :
             /\ keysOf(r[i]) # {}
             /\ Occurs(r[i], r) <= Cardinality(keysOf(r[i]))
        /\ \A k \in InWindow :
             LET d == parse_iso_date(k, basic).val
             IN  (Len(r) = 0 \/ toordinal(d) > toordinal(r[1]))
                   => Len(r) > 0 /\ Occurs(d, r) = Cardinality(keysOf(d))

C28_SavedBothThenLoaded ==
    [][\A d \in Docs :
         /\ (last'.op = "save" /\ last'.name = d /\ last'.lw = "ok"
             /\ last'.remoteOk)
              => /\ local'[d] = TextFile(json_dumps(last'.data))
                 /\ gist'[d] = TextFile(json_dumps(last'.data))
         /\ (/\ last.op = "save" /\ last.name = d /\ last.lw = "ok"
             /\ last.remoteOk
             /\ last'.op = "load" /\ last'.name = d)
              => last'.out = Returned(last.data)]_vars

\* C30: a load never changes the container or the other local document; the
\* local document it loads is left as it was on every fall-through path
\* (remote not configured, failed or empty), and otherwise holds the non-empty
\* remote collection afterwards.
C30_LoadFrame ==
    [][\A d \in Docs :
         (last'.op = "load" /\ last'.name = d)
           => /\ gist' = gist
              /\ \A e \in Docs \ {d} : local'[e] = local[e]
              /\ IF last'.get = "ok" /\ Truthy(last'.remote)
                 THEN local'[d] \in {local[d],
                                    TextFile(json_dumps(last'.remote))}
                 ELSE local'[d] = local[d]]_vars

\* C27: the fallback save never raises and returns a boolean; it returns True
\* exactly when the remote write or the local write succeeded, the local
\* write is attempted whatever the remote outcome, and it returns False only
\* when both failed. A write that succeeded left the collection in its store.
C27_FallbackSave ==
    last.op = "save_with_fallback"
      => /\ ~last.out.raised
         /\ last.out.val \in {True, False}
         /\ (last.out.val = True) <=> (last.remoteOk \/ last.lw = "ok")
         /\ (last.out.val = False) => (~last.remoteOk /\ last.lw # "ok")
         /\ last.log[Len(last.log)] = "local_write"
         /\ last.lw # "none"
         /\ last.remoteOk => gist[last.name] = TextFile(json_dumps(last.data))
         /\ (last.lw = "ok")
              => local[last.name] = TextFile(json_dumps(last.data))

\* The remote write succeeded, the local write failed, and the call returned
\* True.
C27_Witness ==
    /\ last.op = "save_with_fallback"
    /\ last.remoteOk
    /\ last.lw = "partial"
    /\ last.out = Returned(True)

\* The remote write and the local write both failed and the call returned
\* False.
C27_WitnessBothFailed ==
    /\ last.op = "save_with_fallback"
    /\ last.get = "ok" /\ last.patch = "rejected"
    /\ last.lw = "open_failed"
    /\ last.out = Returned(False)

\* The activities of the catalog whose flag the record holds as True.
CompletedFlags(record) ==
    {a \in ActivityIds : a \in DOMAIN record /\ record[a] = BoolValue(TRUE)}

\* C21: the completion count of a daily record, on the weekly page and on the
\* dashboard, is the number of catalog activities (boolean and complex) whose
\* flag is True in the record; an absent flag counts as not completed and the
\* sub-measurements exercise_time and thesis_wordcount do not enter the count.
C21_CompletionCount ==
    call.fn \in {"activity_count", "completed"}
      => call.result[1] = Cardinality(CompletedFlags(call.args[1]))

\* C29: the counter of the weekly page (written-out id lists) and the counter
\* of the dashboard (ids derived from the catalog) give the same number on
\* every record, for every combination of the catalog's activity flags.
C29_CountersAgree ==
    /\ call.fn = "activity_count" => call.result[1] = completed(call.args[1])
    /\ call.fn = "completed" => call.result[1] = activity_count(call.args[1])

\* C22: the mood lookup of both pages gives the label of the scale for the
\* values 1 to 5 (the middle label for 3) and the empty string, raising
\* nothing, for an integer outside 1..5, a non-integer, None or no mood field.
C22_MoodLabel ==
    call.fn \in {"summary_mood_label", "dashboard_mood_label"}
      => LET record == call.args[1]
             onScale == /\ "mood" \in DOMAIN record
                        /\ record["mood"].t = "int"
                        /\ record["mood"].v \in 1..5
         IN  /\ onScale => /\ call.result[1] = MOOD_RANGE[record["mood"].v].label
                           /\ call.result[1] # ""
                           /\ (record["mood"].v = 3) => call.result[1] = "yi ban"
             /\ ~onScale => call.result[1] = ""

\* The weekly page looked up the mood 3 of a record.
C22_Witness ==
    /\ call.fn = "summary_mood_label"
    /\ "mood" \in DOMAIN call.args[1]
    /\ call.args[1]["mood"] = IntValue(3)
    /\ call.result[1] = "yi ban"

\* The dashboard looked up a mood above the scale.
C22_WitnessOffScale ==
    /\ call.fn = "dashboard_mood_label"
    /\ "mood" \in DOMAIN call.args[1]
    /\ call.args[1]["mood"] = IntValue(6)
    /\ call.result[1] = ""

\* C25: when the remote saves of two sessions for different documents have
\* both completed, interleaved or not, each of the two files holds the
\* content its own saver submitted.
C25_EachFileOwnContent ==
    \A s \in DOMAIN savers, u \in DOMAIN savers :
      (/\ savers[s].pc = "done" /\ savers[s].ok
       /\ savers[u].pc = "done" /\ savers[u].ok
       /\ savers[s].name # savers[u].name)
        => gist[savers[s].name] = TextFile(json_dumps(savers[s].data))

\* The key is the ISO text of a Monday: it parses to a date d with
\* weekday 0, d is the start of its own week, and d formats back to the key.
MondayKey(key) ==
    LET p == parse_iso_date(key, FALSE)
    IN  /\ ~p.raised
        /\ weekday(p.val) = 0
        /\ get_week_start(p.val) = p.val
        /\ isoformat(p.val) = key

\* The keys of the collection a stored file parses to.
StoredKeys(file) ==
    LET r == load_data(file)
    IN  IF ~r.raised /\ r.val.t = "dict" THEN dict_keys(r.val) ELSE {}

\* C23: every key the weekly form writes is the ISO date of a Monday, and so
\* is, after any sequence of week selections and form saves, every key of
\* the collection it saved and of the weekly document, local and remote.
C23_WeeklyKeysMonday ==
    /\ (page.name = "Weekly" /\ page.saved # None)
         => /\ MondayKey(page.key)
            /\ \A k \in dict_keys(page.saved) : MondayKey(k)
    /\ \A k \in StoredKeys(local[WEEKLY_DATA_FILE])
                  \cup StoredKeys(gist[WEEKLY_DATA_FILE]) : MondayKey(k)

\* The weekly form saved a second week next to the week an earlier session
\* had written, and the local document holds both.
C23_Witness ==
    /\ page.name = "Weekly" /\ page.pc = "rerun"
    /\ page.key # EarlierKeys[WEEKLY_DATA_FILE]
    /\ StoredKeys(local[WEEKLY_DATA_FILE])
         = {page.key, EarlierKeys[WEEKLY_DATA_FILE]}

\* C24: the collection a form save passes to the coordinator is the loaded
\* collection with the submitted record under the form's key: that key holds
\* the submitted record, every other key of the loaded collection is kept
\* with its record, and no key is gone. When the save returns, the local
\* document holds that collection.
C24_FormSaveFrame ==
    page.saved # None
      => /\ dict_keys(page.saved) = dict_keys(page.loaded) \cup {page.key}
         /\ dict_at(page.saved, page.key) = page.value
         /\ \A k \in dict_keys(page.loaded) \ {page.key} :
              dict_at(page.saved, k) = dict_at(page.loaded, k)
         /\ (page.pc = "rerun")
              => \E d \in Docs : /\ last.name = d
                                 /\ local[d] = TextFile(json_dumps(page.saved))

\* The daily form replaced the record of a date while the loaded collection
\* held the record of another date too.
C24_Witness ==
    /\ page.name = "Daily" /\ page.pc = "rerun"
    /\ Len(page.loaded.items) = 2
    /\ page.key \in dict_keys(page.loaded)
    /\ dict_at(page.loaded, page.key) # page.value

\* How often step e occurs in the trace of a run, and before which steps.
Count(trace, e) == Cardinality({i \in 1..Len(trace) : trace[i] = e})
Precedes(trace, e, f) ==
    \A i, j \in 1..Len(trace) : (trace[i] = e /\ trace[j] = f) => i < j

\* A run of the Daily page makes one load, before any step that shows the
\* collection, and at most one save; it renders no statistics after a save.
DailyRunShape(run) ==
    /\ Count(run.trace, "load") = 1
    /\ \A e \in {"date_selector", "week_view", "form", "save", "statistics"} :
         Precedes(run.trace, "load", e)
    /\ Count(run.trace, "save") = (IF run.submitted THEN 1 ELSE 0)
    /\ run.submitted => Count(run.trace, "statistics") = 0

\* The run after a forced rerun is a run of the same page, started by the
\* rerun, without a submitted form.
RerunFollows ==
    page.pc = "rerun"
      => /\ page'.name = page.name
         /\ page'.trigger = "rerun"
         /\ ~page'.submitted

C26_WitnessSaveRaised ==
    /\ page.name = "Daily" /\ page.submitted /\ page.pc = "error"
    /\ last.op = "save" /\ last.out.raised
    /\ page.trace = <<"header", "load", "date_selector", "week_view", "form",
                      "save">>

====
